---- MODULE Spec2Model ----
\* aiohttp_jinja2: the environment registry (setup / get_env), the context
\* processor middleware, render_string / render_template and the template
\* decorator, modelled as a state machine over one application and its requests.
EXTENDS Integers, Sequences, FiniteSets, TLC

\* ------------------------------------------------------------------ bounds
\* how many setup calls the bootstrap makes at most
MaxSetups == 2
\* render calls one plain handler makes at most
MaxCalls == 2

\* ------------------------------------------------------- program constants
APP_CONTEXT_PROCESSORS_KEY == "aiohttp_jinja2_context_processors"
APP_KEY == "aiohttp_jinja2_environment"
REQUEST_CONTEXT_KEY == "aiohttp_jinja2_context"
\* the defaults of encoding= and status=
DefaultEncoding == "utf-8"
DefaultStatus == 200

\* ------------------------------------------------------------ input domains
Requests == {"r1", "r2"}
\* keys setup may be given as app_key
AppKeys == {APP_KEY, "admin_environment"}
\* user context processors, and the built-in request_processor
Processors == {"p1", "p2", "request_processor"}
\* what setup may be given as context_processors
ProcessorLists ==
    {<<>>, <<"p1">>, <<"request_processor">>, <<"p1", "p2">>, <<"p2", "p1">>}
\* templates the environment's loader holds, and the names handlers ask for
LoaderTemplates == {"index.html"}
TemplateNames == {"index.html", "missing.html"}
\* a keyword argument is given with a value, or left to its default
NotGiven == [given |-> FALSE]
Given(v) == [given |-> TRUE, value |-> v]
ArgOr(arg, default) == IF arg.given THEN arg.value ELSE default
AppKeyArgs == {NotGiven, Given("admin_environment")}
EncodingArgs == {NotGiven, Given("latin-1")}
StatusArgs == {NotGiven, Given(201)}

\* ------------------------------------------------------------ python values
NoneValue == [type |-> "NoneType"]
Dict(m) == [type |-> "dict", items |-> m]
\* a plain sequence, its elements by position
ListValue == [type |-> "list", items |-> ("0" :> "x")]
EmptyItems == <<>>

\* web.Response(status=status): no content type, charset or text set yet
NewResponse(oid, status) ==
    [type |-> "Response", oid |-> oid, status |-> status,
     content_type |-> "application/octet-stream", charset |-> "None",
     text |-> NoneValue]

\* what a handler may hand back or pass as context
HandlerContexts == {Dict(EmptyItems), Dict("a" :> "v3"), NoneValue, ListValue}
HandlerResponses == {NewResponse("handler", 404)}

\* a check that lets any container through
IsMappingOrSequence(v) == v.type \in {"dict", "list"}
IsMapping(v) == v.type = "dict"
IsStreamResponse(v) == v.type = "Response"
IsNone(v) == v.type = "NoneType"

\* positional arguments of a wrapped handler
RequestArg(r) == [type |-> "Request", request |-> r]
ViewArg(r) == [type |-> "View", request |-> r]
SelfArg == [type |-> "object", request |-> "None"]
ArgLists(r) == {<<RequestArg(r)>>, <<ViewArg(r)>>, <<SelfArg, RequestArg(r)>>}
IsAbstractView(a) == a.type = "View"

\* str(type(context))
TypeRepr(v) ==
    CASE v.type = "dict" -> "<class 'dict'>"
      [] v.type = "list" -> "<class 'list'>"
      [] v.type = "NoneType" -> "<class 'NoneType'>"
      [] OTHER -> "<class 'aiohttp.web_response.Response'>"

\* the text the engine produces for a template and a context
EngineText(name, ctx) == [type |-> "str", template |-> name, context |-> ctx]

HTTPInternalServerError(msg, cause) ==
    [type |-> "HTTPInternalServerError", status |-> 500,
     reason |-> msg, text |-> msg, cause |-> cause]

Returned(v) == [kind |-> "return", value |-> v]
Raised(e) == [kind |-> "raise", value |-> e]
NoOutcome == [kind |-> "none", value |-> NoneValue]

\* d[k] = v on a dict
Put(d, k, v) == (k :> v) @@ d
\* d.update(m): the keys of m override those of d
Update(d, m) == m @@ d

VARIABLES
    app,          \* the application-wide store (web.Application as a mapping)
    middlewares,  \* app.middlewares
    nsetup,       \* setup calls made so far; names the environment each created
    lastsetup,    \* the last setup call: the key it was given, what it returned
    frozen,       \* the application serves requests; bootstrap is over
    pc,           \* per request: absent, middleware, handler, render, done
    store,        \* per request: the request's own mapping
    mw,           \* per request: position in app.middlewares of the running middleware
    pidx,         \* per request: index of the processor being awaited
    mwlog,        \* per request: what the middleware chain did, in order
    call,         \* per request: the render call in progress or last made
    calllog,      \* per request: what that render call asked of its collaborators
    frames,       \* per request: callers suspended on an asynchronous render
    ncalls,       \* per request: render calls the handler made so far
    handled,      \* per request: what the handler returned or raised
    result        \* per request: what the middleware chain returned or raised

vars == <<app, middlewares, nsetup, lastsetup, frozen, pc, store, mw, pidx, mwlog, call,
          calllog, frames, ncalls, handled, result>>

appVars == <<app, middlewares, nsetup, lastsetup>>
mwVars == <<mw, pidx, mwlog>>
callVars == <<call, calllog, frames, ncalls, handled>>

NoCall == [fn |-> "none"]
NoSetup == [app_key |-> "None", env |-> NoneValue]

Init ==
    /\ app = <<>>
    /\ middlewares = <<>>
    /\ nsetup = 0
    /\ lastsetup = NoSetup
    /\ frozen = FALSE
    /\ pc = [r \in Requests |-> "absent"]
    /\ store = [r \in Requests |-> <<>>]
    /\ mw = [r \in Requests |-> 0]
    /\ pidx = [r \in Requests |-> 0]
    /\ mwlog = [r \in Requests |-> <<>>]
    /\ call = [r \in Requests |-> NoCall]
    /\ calllog = [r \in Requests |-> <<>>]
    /\ frames = [r \in Requests |-> <<>>]
    /\ ncalls = [r \in Requests |-> 0]
    /\ handled = [r \in Requests |-> NoOutcome]
    /\ result = [r \in Requests |-> NoOutcome]

\* ---------------------------------------------------------------- registry
Environment(id, enable_async) ==
    [type |-> "Environment", id |-> id, is_async |-> enable_async]

\* a setup that keeps the environment a key already has
SetupStoreSetDefault(a, app_key, context_processors, env) ==
    LET a1 == IF app_key \in DOMAIN a THEN a ELSE Put(a, app_key, env)
    IN IF context_processors # <<>>
       THEN Put(a1, APP_CONTEXT_PROCESSORS_KEY, context_processors)
       ELSE a1

\* setup(app, app_key=..., context_processors=..., enable_async=...)
SetupStore(a, app_key, context_processors, env) ==
    IF context_processors # <<>>
    THEN Put(Put(a, app_key, env), APP_CONTEXT_PROCESSORS_KEY, context_processors)
    ELSE Put(a, app_key, env)

SetupMiddlewares(ms, context_processors) ==
    IF context_processors # <<>>
    THEN Append(ms, "context_processors_middleware")
    ELSE ms

Setup(app_key, context_processors, enable_async) ==
    /\ ~frozen
    /\ nsetup < MaxSetups
    /\ nsetup' = nsetup + 1
    /\ app' = SetupStore(app, app_key, context_processors,
                         Environment(nsetup + 1, enable_async))
    /\ middlewares' = SetupMiddlewares(middlewares, context_processors)
    /\ lastsetup' = [app_key |-> app_key,
                     env |-> Environment(nsetup + 1, enable_async)]
    /\ UNCHANGED <<frozen, pc, store, mwVars, callVars, result>>

\* app.get(app_key) / request.config_dict.get(app_key)
get_env(a, app_key) == IF app_key \in DOMAIN a THEN a[app_key] ELSE NoneValue

\* ------------------------------------------------------- context processors
request_processor(r) == "request" :> r

\* the mappings a processor may return when awaited with request r
ProcessorResults(p, r) ==
    CASE p = "p1" -> {EmptyItems, "a" :> "v1"}
      [] p = "p2" -> {("a" :> "v2") @@ ("b" :> "v2")}
      [] OTHER -> {request_processor(r)}

\* the built-in processor does not raise; a user's may
MayRaise(p) == p # "request_processor"

AwaitEvent(i, j, p) == [ev |-> "await", mw |-> i, idx |-> j, processor |-> p]
MergeEvent(i, j, p, m) ==
    [ev |-> "merge", mw |-> i, idx |-> j, processor |-> p, returned |-> m]
\* entering middleware i, with the request's mapping as it found it
EnterEvent(i, st) == [ev |-> "enter", mw |-> i, before |-> st]
\* the handler is invoked, with the request's mapping as the chain left it
HandlerEvent(st) == [ev |-> "handler", store |-> st]

\* a middleware that starts from an empty context every time
InitRequestContextAlways(st) == Put(st, REQUEST_CONTEXT_KEY, EmptyItems)

\* if REQUEST_CONTEXT_KEY not in request: request[REQUEST_CONTEXT_KEY] = {}
InitRequestContext(st) ==
    IF REQUEST_CONTEXT_KEY \notin DOMAIN st
    THEN Put(st, REQUEST_CONTEXT_KEY, EmptyItems)
    ELSE st

\* a merge that keeps the value already there
MergeProcessorResultKeepFirst(st, m) ==
    [st EXCEPT ![REQUEST_CONTEXT_KEY] = @ @@ m]

\* request[REQUEST_CONTEXT_KEY].update(m)
MergeProcessorResult(st, m) ==
    [st EXCEPT ![REQUEST_CONTEXT_KEY] = Update(@, m)]

\* a middleware that turns an exception of the handler into a response
MiddlewareReturnCaught(outcome) ==
    IF outcome.kind = "raise"
    THEN Returned(NewResponse("middleware", 500))
    ELSE outcome

\* return await handler(request): the middleware hands the outcome on as it is
MiddlewareReturn(outcome) == outcome

RECURSIVE ChainReturn(_, _)
ChainReturn(n, outcome) ==
    IF n = 0 THEN outcome ELSE ChainReturn(n - 1, MiddlewareReturn(outcome))

\* The chain from middleware i on, run up to its first suspension: each
\* middleware initialises the request context and starts its first processor;
\* past the last middleware the handler is invoked.
RECURSIVE EnterChain(_, _, _)
EnterChain(i, st, log) ==
    IF i > Len(middlewares)
    THEN [pc |-> "handler", mw |-> Len(middlewares), pidx |-> 0, store |-> st,
          log |-> Append(log, HandlerEvent(st)), result |-> NoOutcome]
    ELSE LET st1 == InitRequestContext(st)
             log1 == Append(log, EnterEvent(i, st))
         IN IF APP_CONTEXT_PROCESSORS_KEY \notin DOMAIN app
            THEN [pc |-> "done", mw |-> i, pidx |-> 0, store |-> st1, log |-> log1,
                  result |-> ChainReturn(i - 1, Raised([type |-> "KeyError"]))]
            ELSE IF app[APP_CONTEXT_PROCESSORS_KEY] = <<>>
            THEN EnterChain(i + 1, st1, log1)
            ELSE [pc |-> "middleware", mw |-> i, pidx |-> 1, store |-> st1,
                  log |-> Append(log1,
                            AwaitEvent(i, 1, app[APP_CONTEXT_PROCESSORS_KEY][1])),
                  result |-> NoOutcome]

SetChain(r, c) ==
    /\ pc' = [pc EXCEPT ![r] = c.pc]
    /\ mw' = [mw EXCEPT ![r] = c.mw]
    /\ pidx' = [pidx EXCEPT ![r] = c.pidx]
    /\ store' = [store EXCEPT ![r] = c.store]
    /\ mwlog' = [mwlog EXCEPT ![r] = c.log]
    /\ result' = [result EXCEPT ![r] = c.result]

\* what the request's own mapping may hold when it reaches the chain
InitialStores == {<<>>, REQUEST_CONTEXT_KEY :> ("b" :> "v0")}

\* a request arrives and the framework calls the middleware chain; at most
\* `limit` requests are in progress at a time
Arrive(r, limit) ==
    /\ pc[r] = "absent"
    /\ Cardinality({q \in Requests : pc[q] # "absent"}) < limit
    /\ frozen' = TRUE
    /\ \E st \in InitialStores : SetChain(r, EnterChain(1, st, <<>>))
    /\ UNCHANGED <<appVars, callVars>>

\* a loop that reverses the registered sequence in place as it goes
IterateProcessorsReversing(a) ==
    [a EXCEPT ![APP_CONTEXT_PROCESSORS_KEY] =
        [i \in DOMAIN @ |-> @[Len(@) + 1 - i]]]

\* for processor in request.config_dict[APP_CONTEXT_PROCESSORS_KEY]: the loop
\* reads the application's store; this is the store after an iteration
IterateProcessors(a) == a

\* the awaited processor returns m: merge it, then start the next processor
\* or, after the last one, call the handler
ProcessorReturn(r) ==
    /\ pc[r] = "middleware"
    /\ LET procs == app[APP_CONTEXT_PROCESSORS_KEY]
           p == procs[pidx[r]]
       IN \E m \in ProcessorResults(p, r) :
            LET st1 == MergeProcessorResult(store[r], m)
                log1 == Append(mwlog[r], MergeEvent(mw[r], pidx[r], p, m))
            IN IF pidx[r] < Len(procs)
               THEN SetChain(r, [pc |-> "middleware", mw |-> mw[r],
                                 pidx |-> pidx[r] + 1, store |-> st1,
                                 log |-> Append(log1, AwaitEvent(mw[r], pidx[r] + 1,
                                                          procs[pidx[r] + 1])),
                                 result |-> NoOutcome])
               ELSE SetChain(r, EnterChain(mw[r] + 1, st1, log1))
    /\ app' = IterateProcessors(app)
    /\ UNCHANGED <<middlewares, nsetup, lastsetup, frozen, callVars>>

\* a loop that swallows the exception and goes on with the next processor
ProcessorRaiseSwallowed(r) ==
    /\ pc[r] = "middleware"
    /\ LET procs == app[APP_CONTEXT_PROCESSORS_KEY]
           p == procs[pidx[r]]
       IN /\ MayRaise(p)
          /\ IF pidx[r] < Len(procs)
             THEN SetChain(r, [pc |-> "middleware", mw |-> mw[r],
                               pidx |-> pidx[r] + 1, store |-> store[r],
                               log |-> Append(mwlog[r],
                                         AwaitEvent(mw[r], pidx[r] + 1,
                                                    procs[pidx[r] + 1])),
                               result |-> NoOutcome])
             ELSE SetChain(r, EnterChain(mw[r] + 1, store[r], mwlog[r]))
    /\ UNCHANGED <<appVars, frozen, callVars>>

\* the awaited processor raises: nothing catches it
ProcessorRaise(r) ==
    /\ pc[r] = "middleware"
    /\ LET p == app[APP_CONTEXT_PROCESSORS_KEY][pidx[r]]
       IN /\ MayRaise(p)
          /\ result' = [result EXCEPT ![r] =
                 ChainReturn(mw[r] - 1, Raised([type |-> "ProcessorError", processor |-> p]))]
    /\ pc' = [pc EXCEPT ![r] = "done"]
    /\ UNCHANGED <<appVars, frozen, store, mwVars, callVars>>

\* ---------------------------------------------------------------- rendering
\* the message with the default key in place of the one asked for
EnvNotInitializedDefaultKey(app_key) ==
    <<"Template engine is not initialized, call aiohttp_jinja2.setup(..., app_key=",
      APP_KEY, ") first">>
EnvNotInitialized(app_key) ==
    <<"Template engine is not initialized, call aiohttp_jinja2.setup(..., app_key=",
      app_key, ") first">>
TemplateNotFoundText(template_name) == <<"Template '", template_name, "' not found">>
ContextNotMapping(context) == <<"context should be mapping, not ", TypeRepr(context)>>

\* the engine's own error, let through as it is
TemplateNotFoundUnwrapped(template_name) ==
    [type |-> "TemplateNotFound", name |-> template_name]

\* except jinja2.TemplateNotFound as e: raise web.HTTPInternalServerError(...) from e
TemplateNotFoundError(template_name) ==
    HTTPInternalServerError(TemplateNotFoundText(template_name), "TemplateNotFound")

ConfigGetEvent(app_key) == [ev |-> "config_get", key |-> app_key]
GetTemplateEvent(env, name) == [ev |-> "get_template", env |-> env.id, name |-> name]
\* a render that takes the synchronous call whatever the environment
RenderEventAlwaysSync(env, name, ctx) ==
    [ev |-> "render", env |-> env.id, template |-> name, context |-> ctx]
\* if env.is_async: template.render_async(context) else: template.render(context)
RenderEvent(env, name, ctx) ==
    [ev |-> IF env.is_async THEN "render_async" ELSE "render",
     env |-> env.id, template |-> name, context |-> ctx]

\* env.get_template(template_name) finds the template
HasTemplate(env, template_name) == template_name \in LoaderTemplates

\* the merge with the precedence the wrong way round
MergeContextProcessorsWin(st, items) ==
    IF REQUEST_CONTEXT_KEY \in DOMAIN st /\ st[REQUEST_CONTEXT_KEY] # EmptyItems
    THEN st[REQUEST_CONTEXT_KEY] @@ items
    ELSE items

\* if request.get(REQUEST_CONTEXT_KEY): context = dict(request[...], **context)
MergeContext(st, items) ==
    IF REQUEST_CONTEXT_KEY \in DOMAIN st /\ st[REQUEST_CONTEXT_KEY] # EmptyItems
    THEN items @@ st[REQUEST_CONTEXT_KEY]
    ELSE items

\* a merge done in place on the mapping the request holds
StoreAfterMergeInPlace(st, merged) ==
    IF REQUEST_CONTEXT_KEY \in DOMAIN st /\ st[REQUEST_CONTEXT_KEY] # EmptyItems
    THEN Put(st, REQUEST_CONTEXT_KEY, merged)
    ELSE st

\* dict(request[REQUEST_CONTEXT_KEY], **context) builds a new mapping: the
\* request's own mapping after the merge
StoreAfterMerge(st, merged) == st

\* a render_string that validates the context before it looks anything up
render_string_context_first(st, a, template_name, context, app_key) ==
    LET env == get_env(a, app_key)
        e1 == <<ConfigGetEvent(app_key)>>
    IN IF ~IsMapping(context)
       THEN [outcome |-> Raised(HTTPInternalServerError(
                                   ContextNotMapping(context), "None")),
             log |-> e1, store |-> st, suspended |-> FALSE]
       ELSE IF IsNone(env)
       THEN [outcome |-> Raised(HTTPInternalServerError(
                                   EnvNotInitialized(app_key), "None")),
             log |-> e1, store |-> st, suspended |-> FALSE]
       ELSE LET e2 == Append(e1, GetTemplateEvent(env, template_name))
                merged == MergeContext(st, context.items)
            IN IF ~HasTemplate(env, template_name)
               THEN [outcome |-> Raised(TemplateNotFoundError(template_name)),
                     log |-> e2, store |-> st, suspended |-> FALSE]
               ELSE [outcome |-> Returned(EngineText(template_name, merged)),
                     log |-> Append(e2, RenderEvent(env, template_name, merged)),
                     store |-> StoreAfterMerge(st, merged),
                     suspended |-> env.is_async]

\* render_string up to its return, its raise or its suspension on render_async:
\* the outcome, what it asked of the store and the engine, the request's
\* mapping as it leaves it, and whether the text is still being produced by
\* the asynchronous render
render_string(st, a, template_name, context, app_key) ==
    LET env == get_env(a, app_key)
        e1 == <<ConfigGetEvent(app_key)>>
    IN IF IsNone(env)
       THEN [outcome |-> Raised(HTTPInternalServerError(
                                   EnvNotInitialized(app_key), "None")),
             log |-> e1, store |-> st, suspended |-> FALSE]
       ELSE LET e2 == Append(e1, GetTemplateEvent(env, template_name))
            IN IF ~HasTemplate(env, template_name)
               THEN [outcome |-> Raised(TemplateNotFoundError(template_name)),
                     log |-> e2, store |-> st, suspended |-> FALSE]
               ELSE IF ~IsMapping(context)
               THEN [outcome |-> Raised(HTTPInternalServerError(
                                   ContextNotMapping(context), "None")),
                     log |-> e2, store |-> st, suspended |-> FALSE]
               ELSE LET merged == MergeContext(st, context.items)
                    IN [outcome |-> Returned(EngineText(template_name, merged)),
                        log |-> Append(e2, RenderEvent(env, template_name, merged)),
                        store |-> StoreAfterMerge(st, merged),
                        suspended |-> env.is_async]

\* render_template before it delegates: the response it builds and the context
\* it passes on (None becomes {})
RenderTemplateResponse(status) == NewResponse("render_template", status)
\* a render_template that passes the context on as it got it
RenderTemplateContextKeep(context) == context
RenderTemplateContext(context) == IF IsNone(context) THEN Dict(EmptyItems) ELSE context
RenderTemplateFrame(encoding, status) ==
    [fn |-> "render_template", response |-> RenderTemplateResponse(status),
     encoding |-> encoding, status |-> status]

\* a render_template that leaves the charset unset
RenderTemplateTailNoCharset(f, text) ==
    [f.response EXCEPT !.content_type = "text/html", !.text = text]

\* render_template after render_string returned text
RenderTemplateTail(f, text) ==
    [f.response EXCEPT !.content_type = "text/html", !.charset = f.encoding,
                       !.text = text]

\* the decorator's wrapped handler after render_template returned a response
WrappedFrame(status) ==
    [fn |-> "wrapped", response |-> NoneValue, encoding |-> "None", status |-> status]
\* a wrapped handler that forgets response.set_status(status)
WrappedTailKeepStatus(f, response) == response
WrappedTail(f, response) == [response EXCEPT !.status = f.status]

\* a passthrough that applies the decorator's status all the same
WrappedPassthroughSetStatus(status, response) ==
    [response EXCEPT !.status = ArgOr(status, DefaultStatus)]

\* the wrapped handler with a response from the handler: return context
WrappedPassthrough(status, response) == response

\* a wrapped handler that always takes the last positional argument
WrappedRequestLast(args) == args[Len(args)]

\* the request the wrapped handler renders for
WrappedRequest(args) ==
    IF IsAbstractView(args[1]) THEN RequestArg(args[1].request) ELSE args[Len(args)]

\* one mapping shared by all the requests in progress
RequestStoreShared(request) == store["r1"]

\* request.get(REQUEST_CONTEXT_KEY), request[REQUEST_CONTEXT_KEY]: the mapping
\* read is that of the request object the call was given
RequestStore(request) == store[request.request]

\* a value returned to the suspended callers, innermost (last) first; an
\* exception passes through all of them
RECURSIVE Resume(_, _)
Resume(fs, outcome) ==
    IF fs = <<>> \/ outcome.kind = "raise"
    THEN outcome
    ELSE LET f == fs[Len(fs)]
             rest == SubSeq(fs, 1, Len(fs) - 1)
         IN Resume(rest,
                   IF f.fn = "render_template"
                   THEN Returned(RenderTemplateTail(f, outcome.value))
                   ELSE Returned(WrappedTail(f, outcome.value)))

\* the handler has its outcome: the wrapped handler is the handler itself and
\* the chain returns; a plain handler goes on
Deliver(r, fn, outcome) ==
    /\ handled' = [handled EXCEPT ![r] = outcome]
    /\ IF fn = "template"
       THEN /\ pc' = [pc EXCEPT ![r] = "done"]
            /\ result' = [result EXCEPT ![r] = ChainReturn(Len(middlewares), outcome)]
       ELSE /\ pc' = [pc EXCEPT ![r] = "handler"]
            /\ UNCHANGED result

\* the keys of the handler contexts of the render calls the handler has made,
\* the call c being the last of them
EarlierKeys(c) ==
    IF c.fn \in {"render_string", "render_template"}
    THEN c.earlier \cup (IF IsMapping(c.context) THEN DOMAIN c.context.items ELSE {})
    ELSE {}

\* a render call made with the caller frames fs: it completes at once, or
\* suspends on the asynchronous render
StartRender(r, c, fs, rs) ==
    /\ call' = [call EXCEPT ![r] = [earlier |-> EarlierKeys(call[r])] @@ c]
    /\ store' = [store EXCEPT ![c.request.request] = rs.store]
    /\ calllog' = [calllog EXCEPT ![r] = rs.log]
    /\ ncalls' = [ncalls EXCEPT ![r] = @ + 1]
    /\ IF rs.suspended
       THEN /\ frames' = [frames EXCEPT ![r] =
                            Append(fs, [fn |-> "render_async", text |-> rs.outcome.value])]
            /\ pc' = [pc EXCEPT ![r] = "render"]
            /\ UNCHANGED <<handled, result>>
       ELSE /\ frames' = [frames EXCEPT ![r] = <<>>]
            /\ Deliver(r, c.fn, Resume(fs, rs.outcome))

\* template(...)(func) called by the chain: func returned `value`
TemplateHandlerReturn(r, template_name, app_key, encoding, status, args, value) ==
    /\ pc[r] = "handler"
    /\ ncalls[r] = 0
    /\ LET c == [fn |-> "template", template_name |-> template_name,
                 app_key |-> app_key, encoding |-> encoding, status |-> status,
                 args |-> args, context |-> value,
                 request |-> IF IsStreamResponse(value) THEN NoneValue
                             ELSE WrappedRequest(args)]
       IN IF IsStreamResponse(value)
          THEN /\ call' = [call EXCEPT ![r] = c]
               /\ Deliver(r, "template", Returned(WrappedPassthrough(status, value)))
               /\ UNCHANGED <<store, calllog, frames, ncalls>>
          ELSE StartRender(r, c,
                   <<WrappedFrame(ArgOr(status, DefaultStatus)),
                     RenderTemplateFrame(ArgOr(encoding, DefaultEncoding),
                                         DefaultStatus)>>,
                   render_string(RequestStore(WrappedRequest(args)), app, template_name,
                                 RenderTemplateContext(value),
                                 ArgOr(app_key, APP_KEY)))
    /\ UNCHANGED <<appVars, frozen, mwVars>>

\* func raised: nothing in wrapped catches it
TemplateHandlerRaise(r) ==
    /\ pc[r] = "handler"
    /\ ncalls[r] = 0
    /\ call' = [call EXCEPT ![r] = [fn |-> "template_raised"]]
    /\ Deliver(r, "template", Raised([type |-> "HandlerError"]))
    /\ UNCHANGED <<appVars, frozen, store, mwVars, calllog, frames, ncalls>>

\* a plain handler calls render_template(template_name, request, context, ...)
RenderTemplateCall(r, template_name, context, app_key, encoding, status, limit) ==
    /\ pc[r] = "handler"
    /\ call[r].fn # "template"
    /\ ncalls[r] < limit
    /\ StartRender(r, [fn |-> "render_template", template_name |-> template_name,
                       app_key |-> app_key, encoding |-> encoding, status |-> status,
                       context |-> context, request |-> RequestArg(r)],
                   <<RenderTemplateFrame(ArgOr(encoding, DefaultEncoding),
                                         ArgOr(status, DefaultStatus))>>,
                   render_string(RequestStore(RequestArg(r)), app, template_name,
                                 RenderTemplateContext(context),
                                 ArgOr(app_key, APP_KEY)))
    /\ UNCHANGED <<appVars, frozen, mwVars>>

\* a plain handler calls render_string(template_name, request, context, ...)
RenderStringCall(r, template_name, context, app_key, limit) ==
    /\ pc[r] = "handler"
    /\ call[r].fn # "template"
    /\ ncalls[r] < limit
    /\ StartRender(r, [fn |-> "render_string", template_name |-> template_name,
                       app_key |-> app_key, context |-> context, request |-> RequestArg(r)],
                   <<>>,
                   render_string(RequestStore(RequestArg(r)), app, template_name, context,
                                 ArgOr(app_key, APP_KEY)))
    /\ UNCHANGED <<appVars, frozen, mwVars>>

\* template.render_async(context) completes: the text goes back up the callers
RenderAsyncDone(r) ==
    /\ pc[r] = "render"
    /\ LET fs == frames[r]
           top == fs[Len(fs)]
       IN Deliver(r, call[r].fn,
                  Resume(SubSeq(fs, 1, Len(fs) - 1), Returned(top.text)))
    /\ frames' = [frames EXCEPT ![r] = <<>>]
    /\ UNCHANGED <<appVars, frozen, store, mwVars, call, calllog, ncalls>>

\* a plain handler ends with the outcome of its last render call
HandlerReturn(r) ==
    /\ pc[r] = "handler"
    /\ call[r].fn # "template"
    /\ ncalls[r] > 0
    /\ pc' = [pc EXCEPT ![r] = "done"]
    /\ result' = [result EXCEPT ![r] = ChainReturn(Len(middlewares), handled[r])]
    /\ UNCHANGED <<appVars, frozen, store, mwVars, callVars>>

\* the response is sent and the request, with its store, is gone
Finish(r) ==
    /\ pc[r] = "done"
    /\ pc' = [pc EXCEPT ![r] = "absent"]
    /\ store' = [store EXCEPT ![r] = <<>>]
    /\ mw' = [mw EXCEPT ![r] = 0]
    /\ pidx' = [pidx EXCEPT ![r] = 0]
    /\ mwlog' = [mwlog EXCEPT ![r] = <<>>]
    /\ call' = [call EXCEPT ![r] = NoCall]
    /\ calllog' = [calllog EXCEPT ![r] = <<>>]
    /\ frames' = [frames EXCEPT ![r] = <<>>]
    /\ ncalls' = [ncalls EXCEPT ![r] = 0]
    /\ handled' = [handled EXCEPT ![r] = NoOutcome]
    /\ result' = [result EXCEPT ![r] = NoOutcome]
    /\ UNCHANGED <<appVars, frozen>>

\* ------------------------------------------------------------ specification
DoSetup ==
    \E k \in AppKeys, ps \in ProcessorLists, b \in BOOLEAN : Setup(k, ps, b)
DoTemplateHandlerReturn(r) ==
    \E t \in TemplateNames, k \in AppKeyArgs, e \in EncodingArgs, s \in StatusArgs,
       args \in ArgLists(r), v \in HandlerContexts \cup HandlerResponses :
        TemplateHandlerReturn(r, t, k, e, s, args, v)
DoRenderTemplateCall(r) ==
    \E t \in TemplateNames, k \in AppKeyArgs, e \in EncodingArgs, s \in StatusArgs,
       c \in HandlerContexts :
        RenderTemplateCall(r, t, c, k, e, s, 1)
DoRenderStringCall(r) ==
    \E t \in TemplateNames, k \in AppKeyArgs, c \in HandlerContexts :
        RenderStringCall(r, t, c, k, 1)

\* one client: requests are served one at a time, each handler makes one
\* render call
Client == {"r1"}

Next ==
    \/ DoSetup
    \/ \E r \in Client : Arrive(r, 1)
    \/ \E r \in Client : ProcessorReturn(r)
    \/ \E r \in Client : ProcessorRaise(r)
    \/ \E r \in Client : DoTemplateHandlerReturn(r)
    \/ \E r \in Client : TemplateHandlerRaise(r)
    \/ \E r \in Client : DoRenderTemplateCall(r)
    \/ \E r \in Client : DoRenderStringCall(r)
    \/ \E r \in Client : RenderAsyncDone(r)
    \/ \E r \in Client : HandlerReturn(r)
    \/ \E r \in Client : Finish(r)

Spec == Init /\ [][Next]_vars

\* several clients: requests interleave at every suspension point (an awaited
\* processor, an asynchronous render), and a plain handler may make up to
\* MaxCalls render calls; the application is set up with the default key
SharedProcessorLists == {<<"p1", "request_processor">>}
SharedContexts == {Dict(EmptyItems), Dict("c" :> "v3")}
DoSetupShared ==
    \E ps \in SharedProcessorLists, b \in BOOLEAN : Setup(APP_KEY, ps, b)
DoTemplateHandlerReturnShared(r) ==
    \E args \in {<<ViewArg(r)>>, <<SelfArg, RequestArg(r)>>} :
        TemplateHandlerReturn(r, "index.html", NotGiven, NotGiven, NotGiven, args,
                              Dict("c" :> "v3"))
DoRenderTemplateCallShared(r) ==
    RenderTemplateCall(r, "index.html", NoneValue, NotGiven, NotGiven, NotGiven,
                       MaxCalls)
DoRenderStringCallShared(r) ==
    \E c \in SharedContexts : RenderStringCall(r, "index.html", c, NotGiven, MaxCalls)

NextConcurrent ==
    \/ DoSetupShared
    \/ \E r \in Requests : Arrive(r, Cardinality(Requests))
    \/ \E r \in Requests : ProcessorReturn(r)
    \/ \E r \in Requests : ProcessorRaise(r)
    \/ \E r \in Requests : DoTemplateHandlerReturnShared(r)
    \/ \E r \in Requests : TemplateHandlerRaise(r)
    \/ \E r \in Requests : DoRenderTemplateCallShared(r)
    \/ \E r \in Requests : DoRenderStringCallShared(r)
    \/ \E r \in Requests : RenderAsyncDone(r)
    \/ \E r \in Requests : HandlerReturn(r)
    \/ \E r \in Requests : Finish(r)

SpecConcurrent == Init /\ [][NextConcurrent]_vars

\* the bootstrap alone: setup calls with any string as app_key, the fixed
\* processors key among them
SetupKeys == AppKeys \cup {APP_CONTEXT_PROCESSORS_KEY}
NextRegistry ==
    \E k \in SetupKeys, ps \in ProcessorLists, b \in BOOLEAN : Setup(k, ps, b)

SpecRegistry == Init /\ [][NextRegistry]_vars

\* ===================================================================== claims
Accumulated(r) ==
    IF REQUEST_CONTEXT_KEY \in DOMAIN store[r]
    THEN store[r][REQUEST_CONTEXT_KEY]
    ELSE EmptyItems

IsRender(e) == e.ev \in {"render", "render_async"}
RenderEvents(r) == {i \in DOMAIN calllog[r] : IsRender(calllog[r][i])}

\* C1: the context render_string hands to the engine maps every key of the
\* map-like handler context C to C's value and every other key of the
\* accumulated context A to A's value, and has no other key: on a conflict the
\* handler's value wins.
C1_HandlerContextWins ==
    \A r \in Requests : \A i \in RenderEvents(r) :
        call[r].context.type = "dict" =>
            LET A == Accumulated(r)
                C == call[r].context.items
                E == calllog[r][i].context
            IN /\ DOMAIN E = DOMAIN C \cup DOMAIN A
               /\ \A k \in DOMAIN C : E[k] = C[k]
               /\ \A k \in DOMAIN A \ DOMAIN C : E[k] = A[k]

\* a render in which A and C disagree on "a" and only A has "b"
C1_Witness ==
    \E r \in Requests : \E i \in RenderEvents(r) :
        /\ call[r].context.type = "dict"
        /\ "a" \in DOMAIN call[r].context.items
        /\ {"a", "b"} \subseteq DOMAIN Accumulated(r)
        /\ Accumulated(r)["a"] # call[r].context.items["a"]
        /\ calllog[r][i].context["a"] = "v3"
        /\ calllog[r][i].context["b"] = Accumulated(r)["b"]

\* the middleware's first run on request r is over: the position in mwlog of
\* the event that follows it
FirstRunEnds(r) ==
    {n \in DOMAIN mwlog[r] :
        \/ mwlog[r][n].ev = "handler" /\ Len(middlewares) = 1
        \/ mwlog[r][n].ev = "enter" /\ mwlog[r][n].mw = 2}
StoreAt(e) == IF e.ev = "handler" THEN e.store ELSE e.before
IsMergeOf(e, i) == e.ev = "merge" /\ e.mw = i
MergesOf(r, i) == SelectSeq(mwlog[r], LAMBDA e : IsMergeOf(e, i))
StartedWithout(r) ==
    /\ mwlog[r] # <<>>
    /\ mwlog[r][1].ev = "enter"
    /\ REQUEST_CONTEXT_KEY \notin DOMAIN mwlog[r][1].before
LastReturning(ms, k) ==
    CHOOSE j \in DOMAIN ms :
        /\ k \in DOMAIN ms[j].returned
        /\ \A j2 \in DOMAIN ms : k \in DOMAIN ms[j2].returned => j2 <= j

\* C2: once the middleware has run for a request that came without an
\* accumulated context, that context holds exactly the keys the registered
\* processors returned, processors taken in registration order, each key with
\* the value of the last processor that returned it.
C2_LastRegisteredWins ==
    \A r \in Requests : \A n \in FirstRunEnds(r) :
        StartedWithout(r) =>
            LET procs == app[APP_CONTEXT_PROCESSORS_KEY]
                ms == MergesOf(r, 1)
                acc == StoreAt(mwlog[r][n])[REQUEST_CONTEXT_KEY]
            IN /\ Len(ms) = Len(procs)
               /\ \A j \in DOMAIN ms : ms[j].processor = procs[j] /\ ms[j].idx = j
               /\ DOMAIN acc = UNION {DOMAIN ms[j].returned : j \in DOMAIN ms}
               /\ \A k \in DOMAIN acc : acc[k] = ms[LastReturning(ms, k)].returned[k]

\* p1 then p2 both returned "a": the context holds p2's value
C2_Witness ==
    \E r \in Requests : \E n \in FirstRunEnds(r) :
        /\ StartedWithout(r)
        /\ app[APP_CONTEXT_PROCESSORS_KEY] = <<"p1", "p2">>
        /\ MergesOf(r, 1)[1].returned = ("a" :> "v1")
        /\ StoreAt(mwlog[r][n])[REQUEST_CONTEXT_KEY]["a"] = "v2"

IsEv(e, ev, i, j) == e.ev = ev /\ e.mw = i /\ e.idx = j
HandlerInvoked(r) == \E n \in DOMAIN mwlog[r] : mwlog[r][n].ev = "handler"

\* C3: in one request the handler is invoked only after every registered
\* processor of every middleware run has been awaited and its result merged,
\* the processors one at a time in registration order; the handler is invoked
\* once, and the chain returns what the handler returned or raised.
C3_ProcessorsThenHandler ==
    \A r \in Requests :
        LET L == mwlog[r]
            procs == app[APP_CONTEXT_PROCESSORS_KEY]
        IN /\ \A n \in DOMAIN L :
                /\ L[n].ev = "handler" =>
                     /\ n = Len(L)
                     /\ \A i \in DOMAIN middlewares : \A j \in DOMAIN procs :
                          \E a \in 1..n, b \in 1..n :
                             /\ a < b
                             /\ IsEv(L[a], "await", i, j)
                             /\ IsEv(L[b], "merge", i, j)
                /\ L[n].ev = "await" =>
                     /\ L[n].processor = procs[L[n].idx]
                     /\ n < Len(L) => IsEv(L[n + 1], "merge", L[n].mw, L[n].idx)
                     /\ n > 1
                     /\ IF L[n].idx = 1
                        THEN L[n - 1].ev = "enter" /\ L[n - 1].mw = L[n].mw
                        ELSE IsEv(L[n - 1], "merge", L[n].mw, L[n].idx - 1)
           /\ pc[r] \in {"handler", "render"} => HandlerInvoked(r)
           /\ handled[r].kind # "none" => HandlerInvoked(r)
           /\ pc[r] = "done" /\ handled[r].kind # "none" => result[r] = handled[r]
           /\ pc[r] = "done" /\ handled[r].kind = "none" =>
                  ~HandlerInvoked(r) /\ result[r].kind = "raise"

\* two processors ran, then the handler, and the chain returned its response
C3_Witness ==
    \E r \in Requests :
        /\ pc[r] = "done"
        /\ middlewares # <<>>
        /\ Len(app[APP_CONTEXT_PROCESSORS_KEY]) = 2
        /\ HandlerInvoked(r)
        /\ handled[r].kind = "return"
        /\ result[r] = handled[r]

\* a request whose handler raised, behind the middleware
C3_WitnessRaise ==
    \E r \in Requests :
        /\ pc[r] = "done"
        /\ middlewares # <<>>
        /\ handled[r].kind = "raise"
        /\ result[r] = handled[r]

\* ---------------------------------------------------------------------
EnterCount(r) == Cardinality({n \in DOMAIN mwlog[r] : mwlog[r][n].ev = "enter"})
AwaitCount(r, j) ==
    Cardinality({n \in DOMAIN mwlog[r] :
                    mwlog[r][n].ev = "await" /\ mwlog[r][n].idx = j})

\* C4: whatever setup calls configured the application, the middleware is
\* registered exactly when a processors entry is stored, and for a request
\* that reached its handler the middleware ran once, awaiting each registered
\* processor once.
C4_MiddlewareRunsOnce ==
    /\ (APP_CONTEXT_PROCESSORS_KEY \in DOMAIN app) = (middlewares # <<>>)
    /\ \A r \in Requests :
          HandlerInvoked(r) =>
             IF APP_CONTEXT_PROCESSORS_KEY \in DOMAIN app
             THEN /\ EnterCount(r) = 1
                  /\ \A j \in DOMAIN app[APP_CONTEXT_PROCESSORS_KEY] :
                        AwaitCount(r, j) = 1
             ELSE EnterCount(r) = 0

\* the part of C4 about setup calls that all passed no processors
C4_NoProcessorsNoMiddleware ==
    (APP_CONTEXT_PROCESSORS_KEY \notin DOMAIN app) = (middlewares = <<>>)

Decorated(r) == call[r].fn = "template"
Completed(r) == pc[r] \in {"handler", "done"} /\ handled[r].kind # "none"
StatusOf(c) == IF c.status.given THEN c.status.value ELSE 200
EncodingOf(c) == IF c.encoding.given THEN c.encoding.value ELSE "utf-8"
AppKeyOf(c) == IF c.app_key.given THEN c.app_key.value ELSE "aiohttp_jinja2_environment"

\* C5: when the handler under template(...) returns a response, the wrapped
\* handler returns that very response, status as the handler set it, and no
\* environment lookup, template lookup or render call is made.
C5_Passthrough ==
    \A r \in Requests :
        Decorated(r) /\ call[r].context.type = "Response" =>
            /\ pc[r] = "done"
            /\ handled[r].kind = "return"
            /\ handled[r].value = call[r].context
            /\ result[r] = handled[r]
            /\ calllog[r] = <<>>
            /\ frames[r] = <<>>
            /\ ncalls[r] = 0

\* a response with status 404 passed through a decorator configured with 201
C5_Witness ==
    \E r \in Requests :
        /\ Decorated(r)
        /\ call[r].context.type = "Response"
        /\ StatusOf(call[r]) = 201
        /\ handled[r].value.oid = "handler"
        /\ handled[r].value.status = 404

\* C6: when the handler under template(..., status=s) returns a render context
\* and rendering succeeds, the response the wrapped handler returns has status s.
C6_StatusOverride ==
    \A r \in Requests :
        Decorated(r) /\ call[r].context.type # "Response"
                     /\ handled[r].kind = "return" =>
            /\ handled[r].value.type = "Response"
            /\ handled[r].value.status = StatusOf(call[r])
            /\ result[r] = handled[r]

\* a rendered response with the configured status 201
C6_Witness ==
    \E r \in Requests :
        /\ Decorated(r)
        /\ call[r].context.type = "dict"
        /\ call[r].status = Given(201)
        /\ RenderEvents(r) # {}
        /\ handled[r].kind = "return"
        /\ handled[r].value.status = 201

\* what render_template hands to render_string as context
PassedContext(c) ==
    IF c.fn = "render_string" THEN c.context
    ELSE IF c.context.type = "NoneType" THEN [type |-> "dict", items |-> <<>>]
    ELSE c.context

\* C7: render_template returns, when render_string succeeds, a response with
\* the status asked for (200 by default), content type text/html, the encoding
\* asked for as charset (utf-8 by default) and render_string's text as body;
\* when render_string raises, render_template raises that same error.
C7_RenderTemplateResponse ==
    \A r \in Requests :
        call[r].fn = "render_template" /\ Completed(r) =>
            LET rs == render_string(store[r], app, call[r].template_name,
                                    PassedContext(call[r]), AppKeyOf(call[r])).outcome
            IN IF rs.kind = "return"
               THEN /\ handled[r].kind = "return"
                    /\ handled[r].value.type = "Response"
                    /\ handled[r].value.status = StatusOf(call[r])
                    /\ handled[r].value.content_type = "text/html"
                    /\ handled[r].value.charset = EncodingOf(call[r])
                    /\ handled[r].value.text = rs.value
               ELSE handled[r] = rs

\* render_template(..., encoding="latin-1", status=201) returned its response
C7_Witness ==
    \E r \in Requests :
        /\ call[r].fn = "render_template"
        /\ Completed(r)
        /\ call[r].status = Given(201)
        /\ call[r].encoding = Given("latin-1")
        /\ handled[r].kind = "return"
        /\ handled[r].value.charset = "latin-1"
        /\ handled[r].value.text.type = "str"

IsInternalError(o, first) ==
    /\ o.kind = "raise"
    /\ o.value.type = "HTTPInternalServerError"
    /\ o.value.reason = o.value.text
    /\ o.value.reason[1] = first
Names(o, name) == \E i \in DOMAIN o.value.reason : o.value.reason[i] = name
EngineEvents(r) ==
    {i \in DOMAIN calllog[r] : calllog[r][i].ev # "config_get"}

\* C8: render_string asks the engine for a template or a render only after it
\* found an environment under app_key; with none stored there it raises the
\* internal-server error whose reason and text are the one message naming
\* app_key, and asks the engine nothing.
C8_EnvironmentFirst ==
    \A r \in Requests :
        calllog[r] # <<>> =>
            LET key == AppKeyOf(call[r])
            IN /\ calllog[r][1] = [ev |-> "config_get", key |-> key]
               /\ \A i \in EngineEvents(r) :
                     /\ i > 1
                     /\ key \in DOMAIN app
                     /\ calllog[r][i].env = app[key].id
               /\ key \notin DOMAIN app =>
                     /\ EngineEvents(r) = {}
                     /\ pc[r] # "render"
                     /\ IsInternalError(handled[r],
                          "Template engine is not initialized, call aiohttp_jinja2.setup(..., app_key=")
                     /\ Names(handled[r], key)

\* a render asked under a key no setup call used, on a configured application
C8_Witness ==
    \E r \in Requests :
        /\ calllog[r] # <<>>
        /\ AppKeyOf(call[r]) = "admin_environment"
        /\ DOMAIN app = {"aiohttp_jinja2_environment"}
        /\ handled[r].kind = "raise"
        /\ Names(handled[r], "admin_environment")

\* C9: with an environment under app_key that does not hold template_name,
\* render_string raises the internal-server error whose reason and text are the
\* one message naming template_name; no render call is made and the engine's
\* not-found error is not what the caller gets.
C9_TemplateNotFound ==
    \A r \in Requests :
        calllog[r] # <<>> /\ AppKeyOf(call[r]) \in DOMAIN app
                          /\ ~HasTemplate(app[AppKeyOf(call[r])], call[r].template_name) =>
            /\ pc[r] # "render"
            /\ IsInternalError(handled[r], "Template '")
            /\ Names(handled[r], call[r].template_name)
            /\ RenderEvents(r) = {}
            /\ calllog[r][Len(calllog[r])].ev = "get_template"

\* missing.html asked of a configured environment
C9_Witness ==
    \E r \in Requests :
        /\ calllog[r] # <<>>
        /\ AppKeyOf(call[r]) \in DOMAIN app
        /\ call[r].template_name = "missing.html"
        /\ handled[r].kind = "raise"
        /\ handled[r].value.cause = "TemplateNotFound"

ReprOf(v) ==
    IF v.type = "list" THEN "<class 'list'>"
    ELSE IF v.type = "NoneType" THEN "<class 'NoneType'>"
    ELSE "<class 'dict'>"

\* C10: with an environment and an existing template, render_string raises the
\* internal-server error about the context, naming its type, exactly when the
\* context it was given is not map-like; then no render call is made and the
\* request's accumulated context stays as the middleware chain left it.
C10_InvalidContext ==
    \A r \in Requests :
        calllog[r] # <<>> /\ AppKeyOf(call[r]) \in DOMAIN app
                          /\ HasTemplate(app[AppKeyOf(call[r])], call[r].template_name) =>
            LET arg == PassedContext(call[r])
                invalid == /\ pc[r] # "render"
                           /\ IsInternalError(handled[r], "context should be mapping, not ")
            IN /\ invalid <=> arg.type # "dict"
               /\ arg.type # "dict" =>
                     /\ Names(handled[r], ReprOf(arg))
                     /\ RenderEvents(r) = {}
                     /\ store[r] = mwlog[r][Len(mwlog[r])].store

\* render_string given a list, behind a middleware that accumulated a context
C10_Witness ==
    \E r \in Requests :
        /\ call[r].fn = "render_string"
        /\ call[r].context.type = "list"
        /\ Accumulated(r) # EmptyItems
        /\ IsInternalError(handled[r], "context should be mapping, not ")
        /\ Names(handled[r], "<class 'list'>")

\* what render_string gave back, as the handler or the response holds it
RenderedText(r) ==
    IF call[r].fn = "render_string" THEN handled[r].value ELSE handled[r].value.text
IsRenderCall(c) == c.fn \in {"render_string", "render_template", "template"}

\* C11: with an environment under app_key, an existing template and a map-like
\* context, render_string makes exactly one engine render call, its last step,
\* on the merged context: the asynchronous call when the environment is
\* asynchronous and the synchronous one otherwise, never both; only the
\* asynchronous call suspends, and the text returned is the text of that call.
C11_OneRenderCall ==
    \A r \in Requests :
        (/\ IsRenderCall(call[r]) /\ calllog[r] # <<>>
         /\ AppKeyOf(call[r]) \in DOMAIN app
         /\ call[r].template_name \in LoaderTemplates
         /\ PassedContext(call[r]).type = "dict") =>
            LET env == app[AppKeyOf(call[r])]
                A == Accumulated(r)
                C == PassedContext(call[r]).items
                E == [k \in DOMAIN C \cup DOMAIN A |->
                         IF k \in DOMAIN C THEN C[k] ELSE A[k]]
                last == calllog[r][Len(calllog[r])]
            IN /\ RenderEvents(r) = {Len(calllog[r])}
               /\ last.ev = IF env.is_async THEN "render_async" ELSE "render"
               /\ last.env = env.id
               /\ last.template = call[r].template_name
               /\ last.context = E
               /\ pc[r] = "render" => env.is_async
               /\ ~env.is_async => Completed(r)
               /\ Completed(r) =>
                    /\ handled[r].kind = "return"
                    /\ RenderedText(r) =
                         [type |-> "str", template |-> call[r].template_name,
                          context |-> E]

\* render_string on an asynchronous environment returned the text of its one
\* render_async call, made on a merge of both contexts
C11_Witness ==
    \E r \in Requests :
        /\ call[r].fn = "render_string" /\ Completed(r)
        /\ RenderEvents(r) # {}
        /\ \A i \in RenderEvents(r) : calllog[r][i].ev = "render_async"
        /\ Accumulated(r) # EmptyItems
        /\ call[r].context.items # EmptyItems
        /\ handled[r].value.context = call[r].context.items @@ Accumulated(r)

\* the accumulated context the request came with, if it came with one
CameWith(r) ==
    IF mwlog[r] # <<>> /\ REQUEST_CONTEXT_KEY \in DOMAIN StoreAt(mwlog[r][1])
    THEN StoreAt(mwlog[r][1])[REQUEST_CONTEXT_KEY]
    ELSE EmptyItems
MergeEvents(r) == {n \in DOMAIN mwlog[r] : mwlog[r][n].ev = "merge"}

\* C12: with several requests in progress, interleaved at every suspension
\* point, every mapping merged for a request is one its processor returns when
\* called with that request, every entry of the request's accumulated context
\* comes from such a mapping (or was there when the request arrived), and every
\* entry of a context rendered for the request comes from its own accumulated
\* context or from its handler's context; the request entry, where present,
\* names the request itself.
C12_RequestIsolation ==
    \A r \in Requests :
        LET A == Accumulated(r)
            L == mwlog[r]
        IN /\ \A n \in MergeEvents(r) :
                L[n].returned \in ProcessorResults(L[n].processor, r)
           /\ \A k \in DOMAIN A :
                \/ \E n \in MergeEvents(r) :
                      k \in DOMAIN L[n].returned /\ L[n].returned[k] = A[k]
                \/ k \in DOMAIN CameWith(r) /\ CameWith(r)[k] = A[k]
           /\ "request" \in DOMAIN A => A["request"] = r
           /\ \A i \in RenderEvents(r) :
                LET E == calllog[r][i].context
                    C == PassedContext(call[r]).items
                IN /\ \A k \in DOMAIN E :
                        \/ k \in DOMAIN C /\ E[k] = C[k]
                        \/ k \in DOMAIN A /\ E[k] = A[k]
                   /\ "request" \in DOMAIN E => E["request"] = r

\* two requests suspended in their renders at the same time, each on a context
\* with its own request entry, their accumulated contexts different otherwise
C12_Witness ==
    /\ \A r \in Requests :
          /\ pc[r] = "render"
          /\ \E i \in RenderEvents(r) :
                /\ "request" \in DOMAIN calllog[r][i].context
                /\ calllog[r][i].context["request"] = r
    /\ "a" \in DOMAIN Accumulated("r1")
    /\ "a" \notin DOMAIN Accumulated("r2")

\* what the requests in progress have seen of the application's store is what
\* the store holds: the environment they looked up, the processors they awaited
SeenAsStored(a) ==
    \A r \in Requests :
        /\ \A i \in DOMAIN calllog[r] :
              calllog[r][i].ev = "get_template" =>
                  calllog[r][i].env = get_env(a, AppKeyOf(call[r])).id
        /\ \A n \in DOMAIN mwlog[r] :
              mwlog[r][n].ev = "await" =>
                  mwlog[r][n].processor =
                      a[APP_CONTEXT_PROCESSORS_KEY][mwlog[r][n].idx]

\* C13: a step of request handling (the middleware, render_string,
\* render_template, the wrapped handler) leaves the application's store, with
\* its environment entries and its processors entry and sequence, and the
\* middleware list as they were; only a setup call changes them, so every
\* request in progress has seen the environment and the processors that the
\* store still holds.
C13_RegistryFrame ==
    [][/\ nsetup' = nsetup => app' = app /\ middlewares' = middlewares
       /\ SeenAsStored(app')]_vars

\* one request went through its processors and a render and is done while the
\* other is in the middle of its processors, on a configured application
C13_Witness ==
    /\ APP_KEY \in DOMAIN app /\ APP_CONTEXT_PROCESSORS_KEY \in DOMAIN app
    /\ pc["r1"] = "done" /\ MergeEvents("r1") # {} /\ RenderEvents("r1") # {}
    /\ pc["r2"] = "middleware" /\ pidx["r2"] = 2

ProcessorError(p) == [type |-> "ProcessorError", processor |-> p]

\* C14: a processor that was awaited either returned, and its mapping was
\* merged next, or raised: then nothing follows it in the request (no later
\* processor, no later middleware run, no handler, no render) and the chain
\* raises that processor's exception as it is. An exception of the handler
\* under template(...) is what the wrapped handler and the chain raise, as it
\* is, and no environment lookup, template lookup or render is made.
C14_ExceptionsPropagate ==
    \A r \in Requests :
        LET L == mwlog[r]
        IN /\ \A n \in DOMAIN L :
                L[n].ev = "await" =>
                    IF n < Len(L)
                    THEN /\ L[n + 1].ev = "merge"
                         /\ L[n + 1].mw = L[n].mw /\ L[n + 1].idx = L[n].idx
                    ELSE pc[r] = "done" =>
                            /\ result[r] = Raised(ProcessorError(L[n].processor))
                            /\ ~HandlerInvoked(r)
                            /\ handled[r] = NoOutcome
                            /\ call[r] = NoCall /\ calllog[r] = <<>>
           /\ (result[r].kind = "raise" /\ result[r].value.type = "ProcessorError") =>
                /\ L # <<>> /\ L[Len(L)].ev = "await"
                /\ L[Len(L)].processor = result[r].value.processor
           /\ call[r].fn = "template_raised" =>
                /\ pc[r] = "done"
                /\ handled[r] = Raised([type |-> "HandlerError"])
                /\ result[r] = handled[r]
                /\ calllog[r] = <<>> /\ frames[r] = <<>>

\* the second processor of the second middleware run raised after the first
\* one's result was merged, and the chain raised its exception
C14_Witness ==
    \E r \in Requests :
        /\ pc[r] = "done"
        /\ result[r] = Raised(ProcessorError("p1"))
        /\ mw[r] = 2 /\ pidx[r] = 2
        /\ MergeEvents(r) # {}

\* what get_env finds under the keys ks other than the one the step's setup
\* call was given stays as it was
OtherKeysKept(ks) ==
    \A k2 \in ks \ {lastsetup'.app_key} : get_env(app', k2) = get_env(app, k2)

ErrorKind(o) ==
    IF o.kind # "raise" THEN "none"
    ELSE IF o.value.reason[1] =
              "Template engine is not initialized, call aiohttp_jinja2.setup(..., app_key="
    THEN "ENVIRONMENT_NOT_CONFIGURED"
    ELSE IF o.value.reason[1] = "Template '" THEN "TEMPLATE_NOT_FOUND"
    ELSE IF o.value.reason[1] = "context should be mapping, not " THEN "INVALID_CONTEXT"
    ELSE "other"

\* the first failure condition that holds for the call, in the order
\* environment, template, context
FirstFailure(c) ==
    IF AppKeyOf(c) \notin DOMAIN app THEN "ENVIRONMENT_NOT_CONFIGURED"
    ELSE IF c.template_name \notin LoaderTemplates THEN "TEMPLATE_NOT_FOUND"
    ELSE IF PassedContext(c).type # "dict" THEN "INVALID_CONTEXT"
    ELSE "none"

\* C16: a render call reports the first failure condition that holds, in the
\* order environment, template, context, and stops there: without an
\* environment it only looked the key up, whatever the template name and the
\* context; with an environment and without the template it reports the
\* template, map-like context or not; it reports the context only after the
\* environment and the template were found; with no failure it renders.
C16_FirstFailureOnly ==
    \A r \in Requests :
        IsRenderCall(call[r]) /\ calllog[r] # <<>> =>
            LET first == FirstFailure(call[r])
                last == calllog[r][Len(calllog[r])]
            IN /\ pc[r] = "render" => first = "none"
               /\ first # "none" => Completed(r)
               /\ Completed(r) =>
                    /\ ErrorKind(handled[r]) = first
                    /\ first = "ENVIRONMENT_NOT_CONFIGURED" => last.ev = "config_get"
                    /\ first \in {"TEMPLATE_NOT_FOUND", "INVALID_CONTEXT"} =>
                          last.ev = "get_template"
                    /\ first = "none" => IsRender(last)

\* render_string with an environment, a missing template and a list as context
\* reports the template
C16_Witness ==
    \E r \in Requests :
        /\ call[r].fn = "render_string" /\ Completed(r)
        /\ call[r].template_name = "missing.html"
        /\ call[r].context.type = "list"
        /\ AppKeyOf(call[r]) \in DOMAIN app
        /\ ErrorKind(handled[r]) = "TEMPLATE_NOT_FOUND"

\* the events at which a middleware run that began at event n has ended: the
\* next middleware is entered or the handler invoked
IsRunEnd(e) == e.ev \in {"enter", "handler"}
RunEnd(r, n) ==
    {m \in DOMAIN mwlog[r] :
        /\ m > n /\ IsRunEnd(mwlog[r][m])
        /\ \A m2 \in DOMAIN mwlog[r] : m2 > n /\ m2 < m => ~IsRunEnd(mwlog[r][m2])}
ContextIn(st) ==
    IF REQUEST_CONTEXT_KEY \in DOMAIN st THEN st[REQUEST_CONTEXT_KEY] ELSE EmptyItems
ReturnedKeys(ms) == UNION {DOMAIN ms[j].returned : j \in DOMAIN ms}

\* C17: a run of the middleware starts from the accumulated context the
\* request's mapping already holds, and from an empty one only when it holds
\* none: when the run has ended the accumulated context has the keys it had
\* before and the keys the run's processors returned, every key that was there
\* before and that no processor of the run returned has the value it had, and
\* nothing else in the request's mapping has changed.
C17_InitOnlyWhenAbsent ==
    \A r \in Requests : \A n \in DOMAIN mwlog[r] :
        mwlog[r][n].ev = "enter" =>
            \A m \in RunEnd(r, n) :
                LET before == mwlog[r][n].before
                    after == StoreAt(mwlog[r][m])
                    base == ContextIn(before)
                    ms == MergesOf(r, mwlog[r][n].mw)
                IN /\ DOMAIN after = DOMAIN before \cup {REQUEST_CONTEXT_KEY}
                   /\ DOMAIN ContextIn(after) = DOMAIN base \cup ReturnedKeys(ms)
                   /\ \A k \in DOMAIN base \ ReturnedKeys(ms) :
                         ContextIn(after)[k] = base[k]
                   /\ \A k \in ReturnedKeys(ms) :
                         ContextIn(after)[k] = ms[LastReturning(ms, k)].returned[k]

\* a request that arrived with b in its accumulated context went through a
\* middleware whose processor returned a alone: both keys are there
C17_Witness ==
    \E r \in Requests :
        /\ HandlerInvoked(r)
        /\ mwlog[r][1].ev = "enter"
        /\ ContextIn(mwlog[r][1].before) = ("b" :> "v0")
        /\ Accumulated(r) = ("a" :> "v1") @@ ("b" :> "v0")

\* the request's mapping as the middleware chain left it to the handler
LeftByChain(r) == mwlog[r][Len(mwlog[r])].store

\* C18: while and after the handler runs, whatever render calls it has made,
\* the request's mapping, and with it the accumulated context, is what the
\* middleware chain left; the context of a render call has the keys of that
\* call's handler context and of the accumulated context and no other, so a
\* key of an earlier call's handler context is in it only if this call or the
\* accumulated context has it.
C18_FreshRenderContext ==
    \A r \in Requests :
        HandlerInvoked(r) =>
            /\ store[r] = LeftByChain(r)
            /\ \A i \in RenderEvents(r) :
                  LET E == calllog[r][i].context
                      C == PassedContext(call[r]).items
                      A == ContextIn(LeftByChain(r))
                  IN /\ E = C @@ A
                     /\ \A k \in call[r].earlier :
                           k \in DOMAIN E => k \in DOMAIN C \cup DOMAIN A

\* the second render call of a handler, with an empty handler context, after
\* a first one whose handler context had the key c: c is not rendered, and the
\* accumulated context is the one the middleware left
C18_Witness ==
    \E r \in Requests :
        /\ ncalls[r] = 2 /\ Completed(r)
        /\ call[r].fn = "render_string"
        /\ call[r].earlier = {"c"}
        /\ call[r].context = Dict(EmptyItems)
        /\ Accumulated(r) # EmptyItems
        /\ \E i \in RenderEvents(r) : calllog[r][i].context = Accumulated(r)

\* C19: when the wrapped handler renders, the request it hands to
\* render_template is the request of its first positional argument when that
\* is a class-based view and its last positional argument otherwise, however
\* many arguments there are: the request being served, whose accumulated
\* context is the one rendered.
C19_RequestArgument ==
    \A r \in Requests :
        Decorated(r) /\ ~IsStreamResponse(call[r].context) =>
            LET args == call[r].args
                first == args[1]
                last == args[Len(args)]
            IN /\ Len(args) >= 1
               /\ first.type = "View" =>
                     call[r].request = [type |-> "Request", request |-> first.request]
               /\ first.type # "View" => call[r].request = last
               /\ call[r].request = RequestArg(r)
               /\ \A i \in RenderEvents(r) :
                     calllog[r][i].context =
                         PassedContext(call[r]).items @@ Accumulated(r)

\* a handler called with a view alone rendered with the view's request and
\* that request's accumulated context
C19_Witness ==
    \E r \in Requests :
        /\ Decorated(r) /\ RenderEvents(r) # {}
        /\ call[r].args = <<ViewArg(r)>>
        /\ call[r].request = RequestArg(r)
        /\ Accumulated(r) # EmptyItems

\* the wrapped handler got None from the handler and rendered the accumulated
\* context alone
RenderedAccumulated(r) ==
    /\ handled[r].kind = "return"
    /\ handled[r].value.type = "Response"
    /\ RenderEvents(r) # {}
    /\ \A i \in RenderEvents(r) : calllog[r][i].context = Accumulated(r)
    /\ handled[r].value.text.context = Accumulated(r)

\* C20 as stated, whatever the application holds: a wrapped handler whose
\* handler returned None ends with the rendered response, and one whose
\* handler returned a list ends with the error about the context.
C20_NoneRendersAlways ==
    \A r \in Requests :
        Decorated(r) /\ Completed(r) =>
            /\ IsNone(call[r].context) => RenderedAccumulated(r)
            /\ call[r].context.type = "list" =>
                  ErrorKind(handled[r]) = "INVALID_CONTEXT"

\* C20, with an environment under app_key that holds the template: a wrapped
\* handler whose handler returned None renders the template with the
\* accumulated context alone and returns the response, raising nothing about
\* the context; one whose handler returned a value that is neither a response
\* nor a mapping nor None raises the error about the context, naming the
\* value's type, and renders nothing.
C20_NoneRenders ==
    \A r \in Requests :
        (/\ Decorated(r)
         /\ AppKeyOf(call[r]) \in DOMAIN app
         /\ call[r].template_name \in LoaderTemplates) =>
            /\ IsNone(call[r].context) =>
                  /\ \A i \in RenderEvents(r) :
                        calllog[r][i].context = Accumulated(r)
                  /\ Completed(r) => RenderedAccumulated(r)
                  /\ pc[r] \in {"render", "done"}
            /\ call[r].context.type = "list" =>
                  /\ Completed(r)
                  /\ ErrorKind(handled[r]) = "INVALID_CONTEXT"
                  /\ Names(handled[r], "<class 'list'>")
                  /\ RenderEvents(r) = {}

\* a handler that returned None, behind a middleware that accumulated a
\* context: the response carries the text rendered from that context
C20_Witness ==
    \E r \in Requests :
        /\ Decorated(r) /\ Completed(r)
        /\ IsNone(call[r].context)
        /\ Accumulated(r) # EmptyItems
        /\ RenderedAccumulated(r)

====
